---- MODULE Spec2Model ----
(***************************************************************************)
(* Model of response_fytter/event_type.py: the three basis generators and  *)
(* the EventType class (construction, event_timecourse,                    *)
(* create_design_matrix, betas_to_timecourses), together with the shared   *)
(* signal context (the fitter) the EventType reads.                        *)
(*                                                                         *)
(* Times (onsets, durations, interval ends) are integers counting ticks of *)
(* 1/Res second, so every product with the sample frequency is an exact    *)
(* rational num/den and int(), round() and np.arange are modelled on it.   *)
(* Arrays are functions over 0 .. n-1, as numpy indexes them.              *)
(***************************************************************************)
EXTENDS Integers, Sequences, FiniteSets, TLC

VARIABLES
    fitter,   \* the shared signal context (ResponseFitter attributes read here)
    ev,       \* ev[i]: the attributes of EventType instance i
    last      \* the outcome of the most recent call (what the caller observes)

vars == <<fitter, ev, last>>

(***************************************************************************)
(* Bounds of the model.                                                    *)
(***************************************************************************)
Res == 2          \* ticks per second of the time grid
SigLen == 6       \* samples of the shared signal
MaxEvents == 2    \* longest onset_times / durations / covariate column

Inst == {1, 2}
Frequencies == {1, 2}                       \* input_sample_frequency, in Hz
Supported == {"fir", "fourier", "legendre"}

(***************************************************************************)
(* Arithmetic of Python and numpy on exact rationals num/den, den > 0.     *)
(***************************************************************************)
Abs(x) == IF x < 0 THEN -x ELSE x

Max(a, b) == IF a >= b THEN a ELSE b

Min(a, b) == IF a <= b THEN a ELSE b

\* int(x): truncation toward zero
PyInt(num, den) == IF num >= 0 THEN num \div den ELSE -((-num) \div den)

\* ceil(x), as np.arange uses it for its length
Ceil(num, den) == -((-num) \div den)

\* round(x): to nearest, ties to even
PyRound(num, den) ==
    LET fl == num \div den
        r2 == 2 * (num - fl * den)
    IN  IF r2 < den THEN fl
        ELSE IF r2 > den THEN fl + 1
        ELSE IF fl % 2 = 0 THEN fl ELSE fl + 1

RECURSIVE Gcd(_, _)
Gcd(a, b) == IF b = 0 THEN a ELSE Gcd(b, a % b)

\* the float num/den as a reduced fraction; den = 0 is numpy's inf or nan
Quot(num, den) ==
    IF den = 0 THEN <<num, 0>>
    ELSE LET g == Gcd(Abs(num), Abs(den))
             s == IF den < 0 THEN -1 ELSE 1
         IN  <<s * (num \div g), s * (den \div g)>>

Zero == <<0, 1>>

RECURSIVE SeqSum(_)
SeqSum(s) == IF s = <<>> THEN 0 ELSE Head(s) + SeqSum(Tail(s))

\* the indices a[start:stop] selects in an array of n elements
PySlice(start, stop, n) ==
    LET norm(k) == IF k < 0 THEN Max(k + n, 0) ELSE Min(k, n)
    IN  {i \in 0 .. n - 1 : norm(start) <= i /\ i < norm(stop)}

(***************************************************************************)
(* Basis generators.  A basis matrix is its shape and, row by row, the     *)
(* function the row samples.                                               *)
(***************************************************************************)
\* np.eye(n), np.zeros((n, m)) raise ValueError on a negative dimension
NegativeDimension(n) == n < 0

create_fir_basis(timepoints, n_regressors) ==
    [shape |-> <<n_regressors, n_regressors>>,
     rows  |-> [r \in 0 .. n_regressors - 1 |-> <<"unit", r>>]]

create_fourier_basis(timepoints, n_regressors) ==
    LET half == PyInt(n_regressors, 2)
    IN  [shape |-> <<n_regressors, Len(timepoints)>>,
         rows  |-> [r \in 0 .. n_regressors - 1 |->
                      IF r = 0 THEN <<"one", 0>>
                      ELSE IF r <= half THEN <<"sin", r>>
                      ELSE IF r <= 2 * half THEN <<"cos", r - half>>
                      ELSE <<"zero", 0>>]]

create_legendre_basis(timepoints, n_regressors) ==
    [shape |-> <<n_regressors, Len(timepoints)>>,
     rows  |-> [r \in 0 .. n_regressors - 1 |-> <<"legendre", r>>]]

(***************************************************************************)
(* EventType.__init__                                                      *)
(***************************************************************************)
\* np.arange(t0, t1, input_sample_duration): point k is t0 + k/f, kept in
\* units of 1/(Res*f) second
Timepoints(interval, f) ==
    LET n == Max(Ceil((interval[2] - interval[1]) * f, Res), 0)
    IN  [k \in 1 .. n |-> interval[1] * f + (k - 1) * Res]

\* covariates is None: one column 'intercept' of np.ones(onset_times.shape);
\* otherwise pd.DataFrame(covariates), one column per key
CovariateTable(covariates, onset_times) ==
    IF covariates.isNone
    THEN << [name |-> "intercept", values |-> [k \in 1 .. Len(onset_times) |-> 1]] >>
    ELSE covariates.columns

\* pd.DataFrame(dict) raises ValueError when the arrays differ in length
RaggedColumns(covariates) ==
    /\ ~covariates.isNone
    /\ \E a, b \in 1 .. Len(covariates.columns) :
          Len(covariates.columns[a].values) # Len(covariates.columns[b].values)

\* the requested count taken as given, without the parity adjustment
ResolveRegressorsAsGiven(basis_set, interval, n_regressors, f) ==
    IF basis_set = "fir"
    THEN PyInt((interval[2] - interval[1]) * f, Res)
    ELSE n_regressors

ResolveRegressors(basis_set, interval, n_regressors, f) ==
    IF basis_set = "fir"
    THEN PyInt((interval[2] - interval[1]) * f, Res)
    ELSE IF basis_set \in {"fourier", "legendre"}
         THEN IF n_regressors % 2 = 0 THEN n_regressors + 1 ELSE n_regressors
         ELSE n_regressors

\* len(np.arange(1, n/2)) with the true division n/2
HarmonicLabels(n) == Max(Ceil(n - 2, 2), 0)

RegressorLabels(basis_set, timepoints, n) ==
    IF basis_set = "fir"
    THEN [k \in 1 .. Len(timepoints) |-> <<"fir", timepoints[k]>>]
    ELSE IF basis_set = "fourier"
    THEN <<  <<"fourier_intercept", 0>>  >>
         \o [k \in 1 .. HarmonicLabels(n) |-> <<"fourier_sin", k>>]
         \o [k \in 1 .. HarmonicLabels(n) |-> <<"fourier_cos", k>>]
    ELSE [k \in 1 .. Max(n, 0) |-> <<"legendre", k>>]

Basis(basis_set, timepoints, n) ==
    IF basis_set = "fir" THEN create_fir_basis(timepoints, n)
    ELSE IF basis_set = "fourier" THEN create_fourier_basis(timepoints, n)
    ELSE create_legendre_basis(timepoints, n)

NoBasis == [shape |-> <<0, 0>>, rows |-> <<>>]

NoX == [kind |-> "unset", shape |-> <<0, 0>>, columns |-> <<>>,
        data |-> <<>>, index |-> "unset"]

Absent ==
    [attrs |-> {}, name |-> 0, basis_set |-> "", interval |-> <<0, 0>>,
     requested |-> 0, n_regressors |-> 0, onset_times |-> <<>>,
     durations |-> <<>>, covariates |-> <<>>, timepoints |-> <<>>,
     L |-> NoBasis, regressor_labels |-> <<>>, C |-> 0, X |-> NoX,
     betas |-> <<>>, covariate_indices |-> <<>>, timecourses |-> <<>>]

\* the exception __init__ raises on these arguments, "none" when it returns
InitRaises(basis_set, interval, n_regressors, covariates, f) ==
    LET n == ResolveRegressors(basis_set, interval, n_regressors, f)
    IN  IF RaggedColumns(covariates) THEN "ValueError"
        ELSE IF basis_set \in Supported /\ NegativeDimension(n) THEN "ValueError"
        ELSE IF basis_set \notin Supported THEN "AttributeError"
        ELSE "none"

Constructed(i, basis_set, interval, n_regressors, onset_times, durations, covariates, f) ==
    LET tp == Timepoints(interval, f)
        n  == ResolveRegressors(basis_set, interval, n_regressors, f)
        L  == Basis(basis_set, tp, n)
    IN  [Absent EXCEPT
           !.attrs = {"fitter", "name", "basis_set", "interval", "n_regressors",
                      "onset_times", "durations", "timepoints", "covariates",
                      "L", "regressor_labels", "C", "C_I"},
           !.name = i,
           !.basis_set = basis_set,
           !.interval = interval,
           !.requested = n_regressors,
           !.n_regressors = n,
           !.onset_times = onset_times,
           !.durations = durations,
           !.covariates = CovariateTable(covariates, onset_times),
           !.timepoints = tp,
           !.L = L,
           !.regressor_labels = RegressorLabels(basis_set, tp, n),
           !.C = L.shape[1]]

NoCall == [op |-> "none", self |-> 0, arg |-> "", raised |-> "none",
           result |-> <<>>]

EventType_init(i, basis_set, interval, n_regressors, onset_times, durations, covariates) ==
    LET f   == fitter.input_sample_frequency
        exc == InitRaises(basis_set, interval, n_regressors, covariates, f)
    IN  /\ ev[i].attrs = {}
        /\ ev' = IF exc = "none"
                 THEN [ev EXCEPT ![i] =
                         Constructed(i, basis_set, interval, n_regressors,
                                     onset_times, durations, covariates, f)]
                 ELSE ev
        /\ last' = [NoCall EXCEPT !.op = "__init__", !.self = i,
                                  !.arg = basis_set, !.raised = exc,
                                  !.result = <<n_regressors>>]
        /\ UNCHANGED fitter

(***************************************************************************)
(* EventType.event_timecourse                                              *)
(***************************************************************************)
\* a start index rounded to the nearest sample instead of truncated
StartIndexRounded(e, t0, f) == PyRound((e + t0) * f, Res)

\* et = int((e + self.interval[0]) * input_sample_frequency)
StartIndex(e, t0, f) == PyInt((e + t0) * f, Res)

\* dt = int(d * input_sample_frequency)
WidthSamples(d, f) == PyInt(d * f, Res)

\* c / mean_dur, mean_dur = self.durations.mean() * input_sample_frequency
Amplitude(c, durations, f) ==
    Quot(c * Len(durations) * Res, SeqSum(durations) * f)

\* rational addition
Plus(a, b) == Quot(a[1] * b[2] + b[1] * a[2], a[2] * b[2])

\* event_timepoints[et:et+dt] += v, accumulating overlapping events
AssignSliceAdding(arr, et, dt, v) ==
    LET n == Cardinality(DOMAIN arr)
    IN  [i \in DOMAIN arr |->
            IF i \in PySlice(et, et + dt, n) THEN Plus(arr[i], v) ELSE arr[i]]

\* event_timepoints[et:et+dt] = v
AssignSlice(arr, et, dt, v) ==
    LET n == Cardinality(DOMAIN arr)
    IN  [i \in DOMAIN arr |-> IF i \in PySlice(et, et + dt, n) THEN v ELSE arr[i]]

\* zip(onset_times, durations, covariate) stops at the shortest of the three
ZipLen(onset_times, durations, covariate) ==
    Min(Len(onset_times), Min(Len(durations), Len(covariate)))

RECURSIVE WriteEvents(_, _, _, _, _, _)
WriteEvents(arr, k, m, self, covariate, f) ==
    IF k > m THEN arr
    ELSE WriteEvents(
             AssignSlice(arr,
                         StartIndex(self.onset_times[k], self.interval[1], f),
                         WidthSamples(self.durations[k], f),
                         Amplitude(covariate[k], self.durations, f)),
             k + 1, m, self, covariate, f)

HasColumn(self, name) ==
    \E k \in 1 .. Len(self.covariates) : self.covariates[k].name = name

Column(self, name) ==
    self.covariates[CHOOSE k \in 1 .. Len(self.covariates) :
                        self.covariates[k].name = name].values

\* the value event_timecourse returns, or the exception it raises
event_timecourse(self, covariate, fit) ==
    LET key == IF covariate = "None" THEN "intercept" ELSE covariate
    IN  IF ~HasColumn(self, key)
        THEN [raised |-> "KeyError", result |-> <<>>]
        ELSE [raised |-> "none",
              result |-> WriteEvents(
                             [i \in 0 .. fit.input_signal.shape0 - 1 |-> Zero],
                             1,
                             ZipLen(self.onset_times, self.durations,
                                    Column(self, key)),
                             self, Column(self, key),
                             fit.input_sample_frequency)]

(***************************************************************************)
(* EventType.create_design_matrix                                          *)
(***************************************************************************)
\* pd.MultiIndex.from_product(([name], covariates.columns, regressor_labels))
ColumnLabels(self) ==
    LET nl == Len(self.regressor_labels)
    IN  [k \in 1 .. Len(self.covariates) * nl |->
            <<self.name,
              self.covariates[((k - 1) \div nl) + 1].name,
              self.regressor_labels[((k - 1) % nl) + 1]>>]

\* pd.DataFrame(ndarray, columns=..., index=...) keeps an Index it is given
\* (no copy) and builds a new one from anything else
FrameIndex(time_points) ==
    IF time_points.kind = "Index" THEN "shared" ELSE "own"

\* sp.signal.fftconvolve(event_timepoints, self.L[r], 'same'), kept symbolic
Convolved(self, fit, k) ==
    LET nl == Len(self.regressor_labels)
    IN  [signal |-> event_timecourse(
                        self, self.covariates[((k - 1) \div nl) + 1].name,
                        fit).result,
         kernel |-> self.L.rows[(k - 1) % nl]]

\* self.X after the call, and the exception the call raises
create_design_matrix(self, fit) ==
    LET width  == self.n_regressors * Len(self.covariates)
        labels == ColumnLabels(self)
    IN  IF width # Len(labels)
        THEN [raised |-> "ValueError",
              X |-> [NoX EXCEPT !.kind = "ndarray",
                                !.shape = <<fit.input_signal.shape0, width>>]]
        ELSE [raised |-> "none",
              X |-> [kind    |-> "DataFrame",
                     shape   |-> <<fit.input_signal.shape0, width>>,
                     columns |-> labels,
                     data    |-> [k \in 1 .. width |-> Convolved(self, fit, k)],
                     index   |-> FrameIndex(fit.input_signal_time_points)]]

\* self.X.index.rename('t', inplace=True): renames the Index object itself
RenameIndex(fit, X) ==
    IF X.index = "shared"
    THEN [fit EXCEPT !.input_signal_time_points.name = "t"]
    ELSE fit

(***************************************************************************)
(* EventType.betas_to_timecourses                                          *)
(***************************************************************************)
\* np.dot(cov_betas.T, self.L).ravel() for every covariate, kept symbolic
Timecourses(self) ==
    [k \in 1 .. Len(self.covariates) |->
        [name   |-> self.covariates[k].name,
         coeffs |-> [r \in 1 .. Len(self.covariate_indices[k]) |->
                        self.betas[self.covariate_indices[k][r]]],
         length |-> self.L.shape[2]]]

\* the method without its assertion: the mapping is reset before self.betas
\* is read
betas_to_timecourses_unguarded(self) ==
    IF "betas" \notin self.attrs
    THEN [raised |-> "AttributeError",
          self |-> [self EXCEPT !.attrs = @ \cup {"timecourses"},
                                !.timecourses = <<>>]]
    ELSE [raised |-> "none",
          self |-> [self EXCEPT !.attrs = @ \cup {"timecourses"},
                                !.timecourses = Timecourses(self)]]

betas_to_timecourses(self) ==
    IF "betas" \notin self.attrs
    THEN [raised |-> "AssertionError", self |-> self]
    ELSE [raised |-> "none",
          self |-> [self EXCEPT !.attrs = @ \cup {"timecourses"},
                                !.timecourses = Timecourses(self)]]

(***************************************************************************)
(* The regression solver (outside this module of the program) attaches the *)
(* fitted coefficients of the block and the columns of each covariate.     *)
(***************************************************************************)
Attached(self, scale) ==
    LET nl == Len(self.regressor_labels)
    IN  [self EXCEPT
           !.attrs = @ \cup {"betas", "covariate_indices"},
           !.betas = [k \in 1 .. self.X.shape[2] |-> scale * k],
           !.covariate_indices =
               [c \in 1 .. Len(self.covariates) |->
                   [r \in 1 .. nl |-> (c - 1) * nl + r]]]

(***************************************************************************)
(* Calls                                                                   *)
(***************************************************************************)
CovariateArgs == {"None", "intercept", "w"}

CallEventTimecourse ==
    \E i \in Inst, covariate \in CovariateArgs :
        LET out == event_timecourse(ev[i], covariate, fitter)
        IN  /\ ev[i].attrs # {}
            /\ last' = [NoCall EXCEPT !.op = "event_timecourse", !.self = i,
                                      !.arg = covariate,
                                      !.raised = out.raised,
                                      !.result = out.result]
            /\ UNCHANGED <<fitter, ev>>

CallCreateDesignMatrix ==
    \E i \in Inst :
        LET out == create_design_matrix(ev[i], fitter)
        IN  /\ ev[i].attrs # {}
            /\ ev' = [ev EXCEPT ![i].attrs = @ \cup {"X"}, ![i].X = out.X]
            /\ fitter' = IF out.raised = "none"
                         THEN RenameIndex(fitter, out.X) ELSE fitter
            /\ last' = [NoCall EXCEPT !.op = "create_design_matrix",
                                      !.self = i, !.raised = out.raised]

AttachBetas ==
    \E i \in Inst, scale \in {1} :
        /\ "X" \in ev[i].attrs
        /\ ev[i].X.kind = "DataFrame"
        /\ "betas" \notin ev[i].attrs
        /\ ev' = [ev EXCEPT ![i] = Attached(ev[i], scale)]
        /\ last' = [NoCall EXCEPT !.op = "attach_betas", !.self = i]
        /\ UNCHANGED fitter

CallBetasToTimecourses ==
    \E i \in Inst :
        LET out == betas_to_timecourses(ev[i])
        IN  /\ ev[i].attrs # {}
            /\ ev' = [ev EXCEPT ![i] = out.self]
            /\ last' = [NoCall EXCEPT !.op = "betas_to_timecourses",
                                      !.self = i, !.raised = out.raised]
            /\ UNCHANGED fitter

(***************************************************************************)
(* The shared signal context                                               *)
(***************************************************************************)
Fitter(f, kind) ==
    [input_sample_frequency   |-> f,
     input_sample_duration    |-> <<1, f>>,
     input_signal             |-> [shape0 |-> SigLen],
     input_signal_time_points |-> [kind |-> kind, name |-> "time",
                                   length |-> SigLen]]

\* input_signal_time_points is an array of times or a pandas Index of them
TimePointKinds == {"ndarray", "Index"}

InitWith(kinds) ==
    /\ \E f \in Frequencies, kind \in kinds : fitter = Fitter(f, kind)
    /\ ev = [i \in Inst |-> Absent]
    /\ last = NoCall

Init == InitWith(TimePointKinds)

InitEvents == InitWith({"ndarray"})

(***************************************************************************)
(* Arguments the constructor is called with                                *)
(***************************************************************************)
None == [isNone |-> TRUE, columns |-> <<>>]

Dict(columns) == [isNone |-> FALSE, columns |-> columns]

Col(name, values) == [name |-> name, values |-> values]

OnsetTicks == {0, 3, 4}

DurationTicks == {2, 3}

Weights == {1, 2}

\* n events; durations and the covariate column as long as onset_times or
\* one shorter
EventArgsOf(n) ==
    [onset_times : [1 .. n -> OnsetTicks],
     durations   : UNION {[1 .. k -> DurationTicks] : k \in {n, n - 1} \cap Nat},
     covariates  : {None} \cup
                   {Dict(<<Col("w", v)>>) :
                       v \in UNION {[1 .. k -> Weights] : k \in {n, n - 1} \cap Nat}}]

EventArgs == UNION {EventArgsOf(n) : n \in 0 .. MaxEvents}

EventIntervals == {<<0, 4>>, <<-4, 2>>, <<4, 8>>}

\* bases, intervals and regressor counts of every shape, two event lists
BasisSets == Supported \cup {"spline"}

BasisIntervals == {<<0, 4>>, <<0, 5>>, <<-4, 2>>, <<0, 1>>}

MaxRequest == 4

Requests == -2 .. MaxRequest

BasisCovariates ==
    {None,
     Dict(<<Col("w", <<2>>)>>),
     Dict(<<Col("intercept", <<1>>), Col("w", <<2>>)>>),
     Dict(<<Col("intercept", <<1>>), Col("w", <<2, 1>>)>>)}

ConstructEvents ==
    /\ ev[1].attrs = {}
    /\ \E interval \in EventIntervals, a \in EventArgs :
        EventType_init(1, "fir", interval, 0, a.onset_times, a.durations,
                       a.covariates)

ConstructBasis ==
    /\ ev[1].attrs = {}
    /\ \E basis_set \in BasisSets, interval \in BasisIntervals,
          n_regressors \in Requests, covariates \in BasisCovariates :
        EventType_init(1, basis_set, interval, n_regressors, <<4>>, <<2>>,
                       covariates)

ConstructShared ==
    \E i \in Inst :
      /\ ev[i].attrs = {}
      /\ \E basis_set \in {"fir", "fourier"}, interval \in {<<0, 4>>, <<0, 5>>},
            covariates \in {Dict(<<Col("intercept", <<1>>), Col("w", <<2>>)>>)} :
        EventType_init(i, basis_set, interval, 3, <<4>>, <<2>>, covariates)

(***************************************************************************)
(* Specifications                                                          *)
(***************************************************************************)
\* several conditions on one shared context
Next ==
    \/ ConstructShared
    \/ CallEventTimecourse
    \/ CallCreateDesignMatrix
    \/ AttachBetas
    \/ CallBetasToTimecourses

Spec == Init /\ [][Next]_vars

\* one condition, every basis set
NextBasis ==
    \/ ConstructBasis
    \/ CallCreateDesignMatrix
    \/ AttachBetas
    \/ CallBetasToTimecourses

SpecBasis == Init /\ [][NextBasis]_vars

\* one condition, every event list
NextEvents ==
    \/ ConstructEvents
    \/ CallEventTimecourse

SpecEvents == InitEvents /\ [][NextEvents]_vars

(***************************************************************************)
(* Vocabulary of the properties                                            *)
(***************************************************************************)
Exists(i) == ev[i].attrs # {}

\* the last call was event_timecourse and it returned an array
Returned == last.op = "event_timecourse" /\ last.raised = "none"

Caller == ev[last.self]

Freq == fitter.input_sample_frequency

\* the covariate column the last event_timecourse call read
UsedColumn ==
    Column(Caller, IF last.arg = "None" THEN "intercept" ELSE last.arg)

\* the events the loop visits: those with an onset, a duration and a value
Events ==
    1 .. Min(Len(Caller.onset_times),
             Min(Len(Caller.durations), Len(UsedColumn)))

\* v is the number c / (mean(durations) * f)
IsAmplitude(v, c) ==
    /\ v[2] > 0
    /\ v[1] * SeqSum(Caller.durations) * Freq
         = v[2] * c * Len(Caller.durations) * Res

\* start and width of event k by truncation and by rounding
TruncStart(k) == PyInt((Caller.onset_times[k] + Caller.interval[1]) * Freq, Res)

TruncWidth(k) == PyInt(Caller.durations[k] * Freq, Res)

RoundStart(k) == PyRound((Caller.onset_times[k] + Caller.interval[1]) * Freq, Res)

RoundWidth(k) == PyRound(Caller.durations[k] * Freq, Res)

Samples == 0 .. fitter.input_signal.shape0 - 1

\* the samples start .. start+width-1 that exist
Range(start, width) == {s \in Samples : start <= s /\ s < start + width}

\* the samples result[start:start+width] addresses
Sliced(k) == PySlice(TruncStart(k), TruncStart(k) + TruncWidth(k),
                     fitter.input_signal.shape0)

(***************************************************************************)
(* C1 (as stated): the result of event_timecourse has one sample per       *)
(* signal sample; a sample in no event's window round((e+t0)f) ..          *)
(* round((e+t0)f)+round(d f)-1 is 0, and a sample in such a window holds   *)
(* c/(mean(durations) f) of an event whose window covers it.  Stated for   *)
(* the calls in which no event starts before sample 0.                     *)
(***************************************************************************)
C1_RoundedWindows ==
    (Returned /\ \A k \in Events : TruncStart(k) >= 0) =>
        /\ DOMAIN last.result = Samples
        /\ \A s \in Samples :
              LET covering == {k \in Events :
                                  s \in Range(RoundStart(k), RoundWidth(k))}
              IN  IF covering = {} THEN last.result[s] = Zero
                  ELSE \E k \in covering :
                          IsAmplitude(last.result[s], UsedColumn[k])

(***************************************************************************)
(* C1 (amended): the same with start = int((e+t0)f) and width = int(d f),  *)
(* truncated toward zero, the window being the samples the slice           *)
(* result[start:start+width] addresses.                                    *)
(***************************************************************************)
C1_TruncatedWindows ==
    Returned =>
        /\ DOMAIN last.result = Samples
        /\ \A s \in Samples :
              LET covering == {k \in Events : s \in Sliced(k)}
              IN  IF covering = {} THEN last.result[s] = Zero
                  ELSE \E k \in covering :
                          IsAmplitude(last.result[s], UsedColumn[k])

\* an event whose start is fractional (1.5 samples), written at sample 1
C1_Witness ==
    /\ Returned
    /\ \E k \in Events :
          /\ TruncStart(k) # RoundStart(k)
          /\ TruncStart(k) >= 0
          /\ TruncWidth(k) > 0
          /\ TruncStart(k) \in Samples
          /\ last.result[TruncStart(k)] # Zero
          /\ IsAmplitude(last.result[TruncStart(k)], UsedColumn[k])

(***************************************************************************)
(* C9: every sample covered by the windows of one or more events holds the *)
(* value c/(mean(durations) f) of the last of them in onset_times order;   *)
(* where windows overlap the later event's value replaces the earlier      *)
(* one's and the two are never added.                                      *)
(***************************************************************************)
C9_LastWriteWins ==
    Returned =>
        \A s \in Samples :
            LET covering == {k \in Events : s \in Sliced(k)}
            IN  covering # {} =>
                    LET k == CHOOSE m \in covering : \A o \in covering : o <= m
                    IN  IsAmplitude(last.result[s], UsedColumn[k])

\* two events with different values overlap on a sample, which holds the
\* later one's value
C9_Witness ==
    /\ Returned
    /\ \E s \in Samples : \E j, k \in Events :
          /\ j < k
          /\ s \in Sliced(j) \cap Sliced(k)
          /\ UsedColumn[j] # UsedColumn[k]
          /\ IsAmplitude(last.result[s], UsedColumn[k])
          /\ ~IsAmplitude(last.result[s], UsedColumn[j])
          /\ \E u \in Sliced(j) \ Sliced(k) :
                IsAmplitude(last.result[u], UsedColumn[j])

(***************************************************************************)
(* C10: a sample of the result of event_timecourse is nonzero only if some *)
(* event's window start .. start+width-1 contains it (start and width      *)
(* taken by truncation or by rounding); nothing is written elsewhere.      *)
(***************************************************************************)
C10_NoWriteOutsideWindow ==
    Returned =>
        \A s \in Samples :
            last.result[s] # Zero =>
                \E k \in Events :
                    \/ s \in Range(TruncStart(k), TruncWidth(k))
                    \/ s \in Range(RoundStart(k), RoundWidth(k))

(***************************************************************************)
(* C6: when durations or a covariate column differ in length from          *)
(* onset_times, no event_timecourse call returns a timecourse.             *)
(***************************************************************************)
ShapeMismatch(self) ==
    \/ Len(self.durations) # Len(self.onset_times)
    \/ \E c \in 1 .. Len(self.covariates) :
          Len(self.covariates[c].values) # Len(self.onset_times)

C6_MismatchFailsFast ==
    (last.op = "event_timecourse" /\ ShapeMismatch(Caller))
        => last.raised # "none"

(***************************************************************************)
(* C2: after create_design_matrix() X is a table with one row per signal   *)
(* sample and n_regressors * (number of covariate columns) columns, one    *)
(* per (name, covariate, regressor_label) triple, and regressor_labels has *)
(* n_regressors entries.                                                   *)
(***************************************************************************)
C2_DesignMatrixShape ==
    last.op = "create_design_matrix" =>
        LET self == Caller
        IN  /\ last.raised = "none"
            /\ self.X.kind = "DataFrame"
            /\ self.X.shape = <<fitter.input_signal.shape0,
                                self.n_regressors * Len(self.covariates)>>
            /\ Len(self.X.columns) = self.X.shape[2]
            /\ Len(self.regressor_labels) = self.n_regressors

(***************************************************************************)
(* C3: the basis matrix L of every constructed EventType has n_regressors  *)
(* rows and len(timepoints) columns.                                       *)
(***************************************************************************)
C3_BasisShape ==
    \A i \in Inst :
        Exists(i) =>
            ev[i].L.shape = <<ev[i].n_regressors, Len(ev[i].timepoints)>>

(***************************************************************************)
(* C5: constructing an EventType with a basis_set other than fir, fourier  *)
(* or legendre fails with the UnsupportedBasisSet error of a validation of *)
(* basis_set, and no EventType with that basis_set exists.                 *)
(***************************************************************************)
C5_UnsupportedBasisRejected ==
    /\ (last.op = "__init__" /\ last.arg \notin Supported)
           => last.raised = "UnsupportedBasisSet"
    /\ \A i \in Inst : Exists(i) => ev[i].basis_set \in Supported

(***************************************************************************)
(* C7: a constructed fourier or legendre EventType has an odd              *)
(* n_regressors >= 1: the request plus one when the request is even, the   *)
(* request itself when it is odd; a constructed fir EventType has          *)
(* n_regressors = int((t1 - t0) * sample_frequency) whatever the request.  *)
(***************************************************************************)
C7_RegressorCount ==
    \A i \in Inst :
        Exists(i) =>
            LET self == ev[i]
            IN  IF self.basis_set = "fir"
                THEN self.n_regressors * Res
                         <= (self.interval[2] - self.interval[1]) * Freq
                     /\ (self.interval[2] - self.interval[1]) * Freq
                         < (self.n_regressors + 1) * Res
                ELSE /\ self.n_regressors % 2 = 1
                     /\ self.n_regressors >= 1
                     /\ self.n_regressors =
                            IF self.requested % 2 = 0
                            THEN self.requested + 1 ELSE self.requested

\* a fourier EventType asked for 4 regressors has 5, a fir one asked for 4
\* has the count its interval gives
C7_Witness ==
    /\ Exists(1)
    /\ ev[1].requested = 4
    /\ \/ ev[1].basis_set = "fourier" /\ ev[1].n_regressors = 5
                                      /\ ev[1].L.shape[1] = 5
       \/ ev[1].basis_set = "legendre" /\ ev[1].n_regressors = 5
    /\ last.op = "create_design_matrix"

(***************************************************************************)
(* C4: a betas_to_timecourses() call on an EventType without betas raises  *)
(* the assertion error and leaves the EventType, its timecourses attribute *)
(* included, as it was.                                                    *)
(***************************************************************************)
C4_MissingBetas ==
    [][\A i \in Inst :
          (last'.op = "betas_to_timecourses" /\ last'.self = i
              /\ "betas" \notin ev[i].attrs)
          => /\ last'.raised = "AssertionError"
             /\ ev'[i] = ev[i]
             /\ "timecourses" \notin ev'[i].attrs]_vars

\* the call made, and refused, after the design matrix was built
C4_Witness ==
    /\ last.op = "betas_to_timecourses"
    /\ last.raised = "AssertionError"
    /\ "X" \in Caller.attrs
    /\ "betas" \notin Caller.attrs
    /\ "timecourses" \notin Caller.attrs

(***************************************************************************)
(* C8: no call of event_timecourse, create_design_matrix or                *)
(* betas_to_timecourses changes the shared context, the onset_times,       *)
(* durations, covariates, n_regressors or L of any EventType, or any       *)
(* attribute of an EventType other than the one it is called on.           *)
(***************************************************************************)
C8_Frame ==
    [][last'.op \in {"event_timecourse", "create_design_matrix",
                     "betas_to_timecourses"}
       => /\ fitter' = fitter
          /\ \A i \in Inst :
                /\ ev'[i].onset_times = ev[i].onset_times
                /\ ev'[i].durations = ev[i].durations
                /\ ev'[i].covariates = ev[i].covariates
                /\ ev'[i].n_regressors = ev[i].n_regressors
                /\ ev'[i].L = ev[i].L
                /\ i # last'.self => ev'[i] = ev[i]]_vars

====
